---- MODULE Spec2Model ----
(***************************************************************************)
(* Interoperability scenarios and throughput benchmarks of monocoque:      *)
(* the request-reply and publish-subscribe tests of interop_tests/ and     *)
(* the loops of benches/interop/libzmq_throughput.py, as one state         *)
(* machine.  One scenario runs per behaviour; `scenario` selects it.       *)
(*                                                                         *)
(* A frame is a sequence of one-character strings (its bytes), a message   *)
(* is a non-empty sequence of frames.                                      *)
(***************************************************************************)
EXTENDS Integers, Sequences, FiniteSets, TLC

\* ------------------------------------------------------------------ bounds
\* Largest payload (in bytes) of the size-parametrised messages b"X" * size.
MaxPayload == 3
\* Largest num_messages a benchmark is run with.
MaxMessages == 3
\* Most messages the publisher process under test emits in one run.
MaxPublished == 6

\* ------------------------------------------------------- program constants
\* for _ in range(100): the warm-up of bench_req_rep_throughput.
WarmupIterations == 100
\* for i in range(10): the cycles of test_multiple_request_cycles.
Cycles == 10
\* for _ in range(5): the receives of test_monocoque_pub_to_libzmq_sub.
PubSubReceives == 5

\* ------------------------------------------------------------ byte strings
EchoPrefix == <<"E","c","h","o",":"," ">>
HelloFromLibzmq == <<"H","e","l","l","o"," ","f","r","o","m"," ","l","i","b","z","m","q">>
EchoHelloFromLibzmq == <<"E","c","h","o",":"," ","H","e","l","l","o"," ","f","r","o","m"," ","l","i","b","z","m","q">>
Frame1 == <<"f","r","a","m","e","1">>
Frame2 == <<"f","r","a","m","e","2">>
Frame3 == <<"f","r","a","m","e","3">>
EchoFrame1 == <<"E","c","h","o",":"," ","f","r","a","m","e","1">>
RequestText == <<"R","e","q","u","e","s","t"," ">>
EchoRequestText == <<"E","c","h","o",":"," ","R","e","q","u","e","s","t"," ">>
Alert == <<"A","L","E","R","T">>
InfoNormal == <<"I","N","F","O",":"," ","n","o","r","m","a","l"," ","m","e","s","s","a","g","e">>
AlertImportant == <<"A","L","E","R","T",":"," ","i","m","p","o","r","t","a","n","t"," ","m","e","s","s","a","g","e">>
DebugDebug == <<"D","E","B","U","G",":"," ","d","e","b","u","g"," ","m","e","s","s","a","g","e">>
AlertCritical == <<"A","L","E","R","T",":"," ","c","r","i","t","i","c","a","l"," ","m","e","s","s","a","g","e">>
ImportantMessage == <<"i","m","p","o","r","t","a","n","t"," ","m","e","s","s","a","g","e">>
CriticalMessage == <<"c","r","i","t","i","c","a","l"," ","m","e","s","s","a","g","e">>
NormalMessage == <<"n","o","r","m","a","l"," ","m","e","s","s","a","g","e">>
DebugMessage == <<"d","e","b","u","g"," ","m","e","s","s","a","g","e">>
Hello == <<"H","e","l","l","o">>
HelloFromMonocoque == <<"H","e","l","l","o"," ","f","r","o","m"," ","M","o","n","o","c","o","q","u","e">>
EchoHelloFromMonocoque == <<"E","c","h","o",":"," ","H","e","l","l","o"," ","f","r","o","m"," ","M","o","n","o","c","o","q","u","e">>
EmptyPrefix == <<>>

\* str(i) for a one-digit i.
Digit(n) == <<"0","1","2","3","4","5","6","7","8","9">>[n + 1]

\* b"X" * size
Xs(size) == [k \in 1..size |-> "X"]

\* bytes.startswith
StartsWith(bytes, prefix) ==
    /\ Len(prefix) <= Len(bytes)
    /\ SubSeq(bytes, 1, Len(prefix)) = prefix

\* needle in haystack, on bytes
IsInfix(needle, hay) ==
    \E k \in 0..(Len(hay) - Len(needle)) : SubSeq(hay, k + 1, k + Len(needle)) = needle

\* needle in output, the output being the printed messages
InOutput(needle, output) ==
    \E k \in 1..Len(output) : IsInfix(needle, output[k])

\* ------------------------------------------------------------------ numbers
\* The floats of the benchmarks and of the report are non-negative rationals
\* [num, den] in lowest terms; their arithmetic is exact, the rounding of
\* IEEE doubles is left out.
RECURSIVE GCD(_, _)
GCD(a, b) == IF b = 0 THEN a ELSE GCD(b, a % b)

\* n / d for integers n >= 0 and d > 0
Ratio(n, d) == LET g == GCD(n, d) IN [num |-> n \div g, den |-> d \div g]

\* float(n)
Num(n) == [num |-> n, den |-> 1]

\* a / b; the callers see to b # 0, where Python raises ZeroDivisionError
Div(a, b) == Ratio(a.num * b.den, a.den * b.num)

\* a * b
Mul(a, b) == Ratio(a.num * b.num, a.den * b.den)

\* a <= b and a < b
Leq(a, b) == a.num * b.den <= b.num * a.den
Less(a, b) == a.num * b.den < b.num * a.den

\* The digits of f"{x:.2f}": x in hundredths, rounded half to even.
Fixed2(x) ==
    LET n == x.num * 100
        q == n \div x.den
        r == n % x.den
    IN  IF 2 * r > x.den \/ (2 * r = x.den /\ q % 2 = 1) THEN q + 1 ELSE q

\* ---------------------------------------------------------------- scenarios
\* The tests that drive a MonocoqueServer (start before try, stop in finally).
ServerTests == {"single", "multipart", "cycles", "large"}
\* These and the standalone script speak REQ to the echo server under test.
EchoClients == ServerTests \cup {"simple"}
Scenarios == EchoClients \cup {"mono_req", "bench_rr", "bench_ps", "topic", "mono_pub"}
\* The scenarios that end by SIGTERM and wait(timeout) on their child process.
StopUsers == EchoClients \cup {"mono_pub"}
\* The scenarios with an endpoint under test as a child process.
PeerScenarios == EchoClients \cup {"mono_req", "topic", "mono_pub"}
\* The benchmarks, which take num_messages.
Benchmarks == {"bench_rr", "bench_ps"}
\* The scenarios whose payload is b"X" * size.
SizedScenarios == Benchmarks \cup {"large"}
\* What a behaviour runs: one interop scenario, two scripts side by side
\* ("concurrent"), or analyze_benchmarks.py ("analyze").
Programs == Scenarios \cup {"concurrent", "analyze"}

\* ------------------------------------------------------------------- ports
\* The entry points that open a TCP endpoint: the scenarios, the test
\* test_libzmq_pub_to_monocoque_sub and the script test_libzmq_client.py.
Scripts == Scenarios \cup {"sub_test", "client_script"}

\* The port an entry point binds or connects to; 0 asks the system for one.
ScriptPort(s) ==
    CASE s = "single" -> 15555
      [] s = "client_script" -> 15555
      [] s = "mono_req" -> 15556
      [] s = "multipart" -> 15557
      [] s = "cycles" -> 15558
      [] s = "large" -> 15559
      [] s = "sub_test" -> 15560
      [] s = "mono_pub" -> 15561
      [] s = "topic" -> 15562
      [] s = "simple" -> 25555
      [] s \in Benchmarks -> 0

\* The ports the system hands out for port 0.
EphemeralPorts == {49152, 49153}

\* Two different entry points, neither started yet.
SessionPairs ==
    {<<[script |-> pair[1], port |-> ScriptPort(pair[1]), state |-> "idle"],
       [script |-> pair[2], port |-> ScriptPort(pair[2]), state |-> "idle"]>> :
        pair \in {q \in Scripts \X Scripts : q[1] # q[2]}}

\* ----------------------------------- the inputs of analyze_benchmarks.py
\* The names of the report: the tags generate_summary looks for, the entry
\* it skips, and the benchmark directories of the runs.
Monocoque == <<"m","o","n","o","c","o","q","u","e">>
ZmqRs == <<"z","m","q","_","r","s">>
TagInfix == <<"_","m","o","n","o","c","o","q","u","e","_">>
ZmqRsInfix == <<"_","z","m","q","_","r","s","_">>
Pipelined == <<"p","i","p","e","l","i","n","e","d">>
Report == <<"r","e","p","o","r","t">>
ReqMonocoque == <<"r","e","q","_","m","o","n","o","c","o","q","u","e">>
ReqZmqRs == <<"r","e","q","_","z","m","q","_","r","s">>
PubMonocoque == <<"p","u","b","_","m","o","n","o","c","o","q","u","e">>
PubZmqRs == <<"p","u","b","_","z","m","q","_","r","s">>
PipelinedReq == <<"p","i","p","e","l","i","n","e","d","_","r","e","q">>

\* point_estimate / 1e6: nanoseconds per millisecond.
NsPerMs == 1000000
\* mean / 1000: milliseconds per second.
MsPerSecond == 1000

Lower == <<"_","a","b","c","d","e","f","g","h","i","j","k","l","m","n","o","p","q","r","s","t","u","v","w","x","y","z">>
Upper == <<"_","A","B","C","D","E","F","G","H","I","J","K","L","M","N","O","P","Q","R","S","T","U","V","W","X","Y","Z">>

\* The place of a character of a name in Lower.
Index(c) == CHOOSE k \in 1..Len(Lower) : Lower[k] = c

\* ord(c) for the characters of the names: "_" is 95, "a" is 97.
Ord(c) == IF c = "_" THEN 95 ELSE 95 + Index(c)

\* str.upper()
ToUpper(str) == [k \in 1..Len(str) |-> Upper[Index(str[k])]]

\* a < b on strings: by the first character that differs, a proper prefix first.
RECURSIVE StrLess(_, _)
StrLess(a, b) ==
    IF b = <<>> THEN FALSE
    ELSE IF a = <<>> THEN TRUE
    ELSE IF Head(a) = Head(b) THEN StrLess(Tail(a), Tail(b))
    ELSE Ord(Head(a)) < Ord(Head(b))

\* name.split('_')[0]
Category(name) ==
    LET at == {k \in 1..Len(name) : name[k] = "_"}
    IN  IF at = {} THEN name
        ELSE SubSeq(name, 1, (CHOOSE k \in at : \A j \in at : k <= j) - 1)

\* str.replace(old, new): every occurrence, left to right, without overlap.
RECURSIVE Replace(_, _, _)
Replace(str, old, new) ==
    IF Len(str) < Len(old) THEN str
    ELSE IF StartsWith(str, old)
         THEN new \o Replace(SubSeq(str, Len(old) + 1, Len(str)), old, new)
         ELSE <<Head(str)>> \o Replace(Tail(str), old, new)

\* name.replace('monocoque', 'zmq_rs').replace('_monocoque_', '_zmq_rs_')
Counterpart(name) == Replace(Replace(name, Monocoque, ZmqRs), TagInfix, ZmqRsInfix)

\* A JSON object is a function from its keys; {} has none.
EmptyDict == [k \in {} |-> 0]

\* dict.get(key, default)
Get(dict, key, default) == IF key \in DOMAIN dict THEN dict[key] ELSE default

\* ---- the estimate files of the runs
\* The point estimates of the files, in nanoseconds.
PointEstimates == {1000000, 2000000}
\* The per_iteration figures of the throughput descriptors.
PerIterations == {1, 1024, 1048576}

\* A mean as Criterion writes it, the interval around the point estimate.
FullMean(pe) ==
    [point_estimate |-> pe,
     confidence_interval |-> [lower_bound |-> pe - 100000, upper_bound |-> pe + 100000]]

\* The "mean" objects of the files, complete or with a key missing.
MeanDicts ==
    {FullMean(pe) : pe \in PointEstimates}
        \cup {[point_estimate |-> 1000000]}
        \cup {[confidence_interval |-> [lower_bound |-> 900000, upper_bound |-> 1100000]]}

\* The "throughput" objects of the files.
ThroughputDicts ==
    {[per_iteration |-> n, unit |-> u] : n \in PerIterations, u \in {"bytes", "elements"}}
        \cup {[per_iteration |-> 1024], [unit |-> "bytes"], EmptyDict}

\* The contents of an estimates.json: with or without "mean" and "throughput".
EstimateFiles ==
    {[mean |-> m, throughput |-> t] : m \in MeanDicts, t \in ThroughputDicts}
        \cup {[mean |-> m] : m \in MeanDicts}
        \cup {[throughput |-> t] : t \in ThroughputDicts}
        \cup {EmptyDict}

\* An entry of target/criterion: its name, whether it is a directory, and
\* the estimates.json of its snapshots ("base", "new") that exist.
DirEntry(name, is_dir, files) == [name |-> name, is_dir |-> is_dir, files |-> files]

\* One benchmark with any estimate file as its base snapshot.
SingleListings ==
    {{DirEntry(name, TRUE, [base |-> data])} :
        name \in {ReqMonocoque, PipelinedReq}, data \in EstimateFiles}

\* The snapshots an entry may hold, out of two files that differ.
SnapshotFiles ==
    LET a == [mean |-> FullMean(1000000)]
        b == [mean |-> FullMean(2000000)]
    IN  {EmptyDict, [base |-> a], [new |-> b], [base |-> a, new |-> b], [base |-> b, new |-> a]}

\* An entry of any kind beside a benchmark that has its "new" snapshot only.
SnapshotListings ==
    {{DirEntry(name, is_dir, files), DirEntry(PubZmqRs, TRUE, [new |-> [mean |-> FullMean(1000000)]])} :
        name \in {ReqMonocoque, Report}, is_dir \in BOOLEAN, files \in SnapshotFiles}

\* The means of the paired runs: 1 ms, 2 ms, or a file without "mean".
PairFiles == {[mean |-> FullMean(pe)] : pe \in PointEstimates} \cup {EmptyDict}

\* Any of four benchmarks, two monocoque ones and their zmq_rs counterparts.
PairListings ==
    UNION {{ {DirEntry(name, TRUE, [base |-> f[name]]) : name \in names} :
                f \in [names -> PairFiles]} :
            names \in SUBSET {ReqMonocoque, ReqZmqRs, PubMonocoque, PubZmqRs}}

Listings == SingleListings \cup SnapshotListings \cup PairListings

VARIABLES
    scenario,       \* the scenario of this run
    conformant,     \* the endpoint under test implements its contract
    message_size,   \* size of the b"X" * size payloads
    num_messages,   \* the benchmark's num_messages
    pc,             \* position of the scenario's control flow
    raised,         \* the exception that is propagating, or "none"
    failure,        \* what a failed assert reports: <<>> or <<record>>
    proc,           \* the child process: "none", "running", "exited"
    stop,           \* position in stop: "idle", "signalled", "returned", "timed_out"
    exitedAtStart,  \* the process had exited when start returned
    returncode,     \* the child's exit status: "none", "0", "1", "SIGTERM", "SIGKILL"
    ctx,            \* the zmq context: "none", "open", "closed"
    socks,          \* the open zmq sockets
    toServer,       \* requests in flight to the replier
    srvPending,     \* the request the replier holds: <<>> or <<message>>
    toClient,       \* replies in flight to the requester
    reply,          \* the message the requester received last
    reqSent, reqRecv, repSent, repRecv,   \* counts of request-reply traffic
    sentLog,        \* every request sent, in order
    i,              \* loop index
    phase,          \* "warmup" or "measure" in bench_req_rep_throughput
    clock,          \* the measurement clock: "off", "running", "stopped"
    timed,          \* exchanges completed while the clock ran
    subscribed,     \* the subscription has reached the publisher
    subPrefix,      \* the subscriber's topic prefix
    published,      \* every message published, in order
    wire,           \* published messages in flight to the subscriber
    rcvq,           \* messages that reached the SUB socket, not yet received
    observed,       \* what the subscriber process printed
    received,       \* bench_pub_sub_throughput's counter
    receivedList,   \* test_monocoque_pub_to_libzmq_sub's list
    result,         \* what bench_req_rep_throughput returned: <<>> or <<record>>
    sessions,       \* the scripts that run at the same time, with their ports
    criterion_dir,  \* the entries of target/criterion
    remaining,      \* the entries iterdir() has not yielded yet
    results,        \* parse_criterion_results' dict, in insertion order
    summary         \* generate_summary's lines: <<>> until it returns

inputVars == <<scenario, conformant, message_size, num_messages>>
ctlVars == <<pc, raised, failure>>
procVars == <<proc, stop, exitedAtStart, returncode>>
sockVars == <<ctx, socks>>
rrVars == <<toServer, srvPending, toClient, reply, reqSent, reqRecv, repSent, repRecv, sentLog>>
loopVars == <<i, phase, clock, timed>>
psVars == <<subscribed, subPrefix, published, wire, rcvq, observed, received, receivedList>>
retVars == <<result>>
sessVars == <<sessions>>
aggVars == <<criterion_dir, remaining, results, summary>>
\* What no step of an interop scenario touches.
extVars == <<sessVars, aggVars>>
vars == <<inputVars, ctlVars, procVars, sockVars, rrVars, loopVars, psVars, retVars, extVars>>

FirstPc(s) ==
    CASE s \in EchoClients -> "start"
      [] s = "mono_req" -> "q_bind"
      [] s = "bench_rr" -> "b_setup"
      [] s = "bench_ps" -> "p_setup"
      [] s = "topic" -> "t_bind"
      [] s = "mono_pub" -> "m_spawn"
      [] s = "concurrent" -> "c_run"
      [] s = "analyze" -> "a_main"

Init ==
    /\ scenario \in Programs
    /\ conformant \in (IF scenario \in PeerScenarios THEN BOOLEAN ELSE {TRUE})
    /\ message_size \in (IF scenario \in SizedScenarios THEN 0..MaxPayload ELSE {0})
    /\ num_messages \in (IF scenario \in Benchmarks THEN 1..MaxMessages ELSE {1})
    /\ pc = FirstPc(scenario)
    /\ raised = "none"
    /\ failure = <<>>
    /\ proc = "none"
    /\ stop = "idle"
    /\ exitedAtStart = FALSE
    /\ returncode = "none"
    /\ ctx = "none"
    /\ socks = {}
    /\ toServer = <<>>
    /\ srvPending = <<>>
    /\ toClient = <<>>
    /\ reply = <<>>
    /\ reqSent = 0 /\ reqRecv = 0 /\ repSent = 0 /\ repRecv = 0
    /\ sentLog = <<>>
    /\ i = 0
    /\ phase = "warmup"
    /\ clock = "off"
    /\ timed = 0
    /\ subscribed = FALSE
    /\ subPrefix = EmptyPrefix
    /\ published = <<>>
    /\ wire = <<>>
    /\ rcvq = <<>>
    /\ observed = <<>>
    /\ received = 0
    /\ receivedList = <<>>
    /\ result = <<>>
    /\ sessions \in (IF scenario = "concurrent" THEN SessionPairs ELSE {<<>>})
    /\ criterion_dir \in (IF scenario = "analyze" THEN Listings ELSE {{}})
    /\ remaining = {}
    /\ results = <<>>
    /\ summary = <<>>

\* ------------------------------------------------- the echo server (peer)
\* The echo rule of the replier under test: frame 0 gets the "Echo: " prefix,
\* the other frames are echoed verbatim.
Echo(request) ==
    [k \in 1..Len(request) |-> IF k = 1 THEN EchoPrefix \o request[k] ELSE request[k]]

\* What the endpoint may answer: its contract, or, when it does not conform,
\* also the request unchanged or the first frame alone.
Replies(request) ==
    IF conformant
    THEN {Echo(request)}
    ELSE {Echo(request), request, <<Echo(request)[1]>>}

\* The replier receives a request.
ServerRecv ==
    /\ scenario \in EchoClients
    /\ proc = "running"
    /\ srvPending = <<>>
    /\ toServer # <<>>
    /\ srvPending' = <<Head(toServer)>>
    /\ toServer' = Tail(toServer)
    /\ reqRecv' = reqRecv + 1
    /\ UNCHANGED <<toClient, reply, reqSent, repSent, repRecv, sentLog>>
    /\ UNCHANGED <<inputVars, extVars, retVars, ctlVars, procVars, sockVars, loopVars, psVars>>

\* The replier answers the request it holds.
ServerSend ==
    /\ scenario \in EchoClients
    /\ proc = "running"
    /\ srvPending # <<>>
    /\ \E r \in Replies(srvPending[1]) : toClient' = Append(toClient, r)
    /\ srvPending' = <<>>
    /\ repSent' = repSent + 1
    /\ UNCHANGED <<toServer, reply, reqSent, reqRecv, repRecv, sentLog>>
    /\ UNCHANGED <<inputVars, extVars, retVars, ctlVars, procVars, sockVars, loopVars, psVars>>

\* A child process exits on its own (a crash, a bind conflict, a normal end).
ProcExit ==
    /\ proc = "running"
    /\ proc' = "exited"
    /\ returncode' = "1"
    /\ UNCHANGED <<stop, exitedAtStart>>
    /\ UNCHANGED <<inputVars, extVars, retVars, ctlVars, sockVars, rrVars, loopVars, psVars>>

\* ------------------------------------------- echo clients (REQ scenarios)
\* The request of cycle k: what the scenario sends.
Request(s, k) ==
    CASE s = "multipart" -> <<Frame1, Frame2, Frame3>>
      [] s = "cycles" -> <<RequestText \o <<Digit(k)>>>>
      [] s = "large" -> <<Xs(message_size)>>
      [] OTHER -> <<HelloFromLibzmq>>

\* The mutant of Asserts: the large-message test expects 5 more bytes, not 6.
AssertsOffByOne(s, k, rep) ==
    CASE s = "large" ->
            << <<StartsWith(rep[1], EchoPrefix), TRUE, StartsWith(rep[1], EchoPrefix)>>,
               <<Len(rep[1]) = Len(Xs(message_size)) + 5,
                 Len(Xs(message_size)) + 5, Len(rep[1])>> >>
      [] OTHER ->
            << <<rep[1] = EchoPrefix \o Request(s, k)[1],
                 EchoPrefix \o Request(s, k)[1], rep[1]>> >>

\* The asserts of a scenario on the reply `rep` of cycle k, in source order:
\* each is <<holds, expected operand, actual operand>>.  socket.recv() hands
\* the scenario frame 0 of the reply, recv_multipart() all its frames.
Asserts(s, k, rep) ==
    CASE s = "multipart" ->
            << <<Len(rep) = 3, 3, Len(rep)>>,
               <<rep[1] = EchoFrame1, EchoFrame1, rep[1]>>,
               <<Len(rep) >= 2 /\ rep[2] = Frame2, Frame2, rep>>,
               <<Len(rep) >= 3 /\ rep[3] = Frame3, Frame3, rep>> >>
      [] s = "cycles" ->
            << <<rep[1] = EchoRequestText \o <<Digit(k)>>,
                 EchoRequestText \o <<Digit(k)>>, rep[1]>> >>
      [] s = "large" ->
            << <<StartsWith(rep[1], EchoPrefix), TRUE, StartsWith(rep[1], EchoPrefix)>>,
               <<Len(rep[1]) = Len(Xs(message_size)) + 6,
                 Len(Xs(message_size)) + 6, Len(rep[1])>> >>
      [] OTHER ->
            << <<rep[1] = EchoHelloFromLibzmq, EchoHelloFromLibzmq, rep[1]>> >>

\* Index of the first assert that fails, 0 when all hold.
FirstFailing(as) ==
    IF \A n \in 1..Len(as) : as[n][1]
    THEN 0
    ELSE CHOOSE n \in 1..Len(as) : ~as[n][1] /\ \A m \in 1..(n - 1) : as[m][1]

\* subprocess.Popen: raises when the executable is missing, else the child runs.
StartPopen ==
    /\ scenario \in EchoClients
    /\ pc = "start"
    /\ \E found \in BOOLEAN :
          IF found
          THEN /\ proc' = "running"
               /\ pc' = "settle"
               /\ raised' = raised
          ELSE /\ proc' = proc
               /\ pc' = "done"
               /\ raised' = "FileNotFoundError"
    /\ UNCHANGED <<failure, stop, exitedAtStart, returncode>>
    /\ UNCHANGED <<inputVars, extVars, retVars, sockVars, rrVars, loopVars, psVars>>

\* time.sleep(1) and the return of start: the child is not looked at.
StartSettle ==
    /\ scenario \in EchoClients
    /\ pc = "settle"
    /\ exitedAtStart' = (proc = "exited")
    /\ pc' = "setup"
    /\ UNCHANGED <<raised, failure, proc, stop, returncode>>
    /\ UNCHANGED <<inputVars, extVars, retVars, sockVars, rrVars, loopVars, psVars>>

\* zmq.Context(), ctx.socket(zmq.REQ), socket.connect(...)
ClientSetup ==
    /\ scenario \in EchoClients
    /\ pc = "setup"
    /\ ctx' = "open"
    /\ socks' = {"req"}
    /\ pc' = "send"
    /\ UNCHANGED <<raised, failure>>
    /\ UNCHANGED <<inputVars, extVars, retVars, procVars, rrVars, loopVars, psVars>>

\* socket.send / socket.send_multipart
ReqSend ==
    /\ scenario \in EchoClients
    /\ pc = "send"
    /\ toServer' = Append(toServer, Request(scenario, i))
    /\ sentLog' = Append(sentLog, Request(scenario, i))
    /\ reqSent' = reqSent + 1
    /\ pc' = "recv"
    /\ UNCHANGED <<raised, failure>>
    /\ UNCHANGED <<srvPending, toClient, reply, reqRecv, repSent, repRecv>>
    /\ UNCHANGED <<inputVars, extVars, retVars, procVars, sockVars, loopVars, psVars>>

\* socket.recv / socket.recv_multipart: blocks until a reply is there.
ReqRecv ==
    /\ scenario \in EchoClients
    /\ pc = "recv"
    /\ toClient # <<>>
    /\ reply' = Head(toClient)
    /\ toClient' = Tail(toClient)
    /\ repRecv' = repRecv + 1
    /\ pc' = "check"
    /\ UNCHANGED <<raised, failure>>
    /\ UNCHANGED <<toServer, srvPending, reqSent, reqRecv, repSent, sentLog>>
    /\ UNCHANGED <<inputVars, extVars, retVars, procVars, sockVars, loopVars, psVars>>

\* The mutant of AfterFailure: the failed pair is sent again.
AfterFailureRetries(s) == "send"

\* Where control goes when an assert of the scenario fails: to the finally
\* block (server.stop()), or, in the standalone script, out of the program.
AfterFailure(s) == IF s = "simple" THEN "done" ELSE "stop_signal"

\* The asserts on the reply; in test_multiple_request_cycles the next cycle.
Check ==
    /\ scenario \in EchoClients
    /\ pc = "check"
    /\ LET as == Asserts(scenario, i, reply)
           n == FirstFailing(as)
       IN  IF n = 0
           THEN /\ UNCHANGED <<raised, failure>>
                /\ IF scenario = "cycles" /\ i + 1 < Cycles
                   THEN i' = i + 1 /\ pc' = "send"
                   ELSE i' = i /\ pc' = "close"
           ELSE /\ raised' = "AssertionError"
                /\ failure' = <<[index |-> i, expected |-> as[n][2], actual |-> as[n][3]]>>
                /\ i' = i
                /\ pc' = AfterFailure(scenario)
    /\ UNCHANGED <<phase, clock, timed>>
    /\ UNCHANGED <<inputVars, extVars, retVars, procVars, sockVars, rrVars, psVars>>

\* socket.close(); ctx.term()
Close ==
    /\ scenario \in EchoClients
    /\ pc = "close"
    /\ socks' = {}
    /\ ctx' = "closed"
    /\ pc' = "stop_signal"
    /\ UNCHANGED <<raised, failure>>
    /\ UNCHANGED <<inputVars, extVars, retVars, procVars, rrVars, loopVars, psVars>>

\* process.send_signal(signal.SIGTERM): a running child exits on it or ignores it.
StopSignal ==
    /\ scenario \in StopUsers
    /\ pc = "stop_signal"
    /\ \E exits \in BOOLEAN :
          /\ proc' = IF proc = "running" /\ exits THEN "exited" ELSE proc
          /\ returncode' = IF proc = "running" /\ exits THEN "SIGTERM" ELSE returncode
    /\ stop' = "signalled"
    /\ pc' = "stop_wait"
    /\ UNCHANGED <<raised, failure, exitedAtStart>>
    /\ UNCHANGED <<inputVars, extVars, retVars, sockVars, rrVars, loopVars, psVars>>

\* process.wait(timeout=...): returns once the child has exited, raises
\* TimeoutExpired otherwise; nothing follows it.
StopWait ==
    /\ scenario \in StopUsers
    /\ pc = "stop_wait"
    /\ IF proc = "exited"
       THEN stop' = "returned" /\ raised' = raised
       ELSE stop' = "timed_out" /\ raised' = "TimeoutExpired"
    /\ pc' = "done"
    /\ UNCHANGED <<failure, proc, exitedAtStart, returncode>>
    /\ UNCHANGED <<inputVars, extVars, retVars, sockVars, rrVars, loopVars, psVars>>

\* ----------------------------------------- test_monocoque_req_to_libzmq_rep
\* What the REQ client under test sends: its greeting by its contract.
ClientRequests ==
    IF conformant THEN {<<HelloFromMonocoque>>} ELSE {<<HelloFromMonocoque>>, <<Hello>>}

\* The exit status of the client once it has its reply.
ClientExitCodes == IF conformant THEN {"0"} ELSE {"0", "1"}

\* The client process sends its one request.
ClientProcSend ==
    /\ scenario = "mono_req"
    /\ proc = "running"
    /\ reqSent = 0
    /\ \E m \in ClientRequests :
          /\ toServer' = Append(toServer, m)
          /\ sentLog' = Append(sentLog, m)
    /\ reqSent' = reqSent + 1
    /\ UNCHANGED <<srvPending, toClient, reply, reqRecv, repSent, repRecv>>
    /\ UNCHANGED <<inputVars, extVars, retVars, ctlVars, procVars, sockVars, loopVars, psVars>>

\* The client process receives the reply and exits.
ClientProcRecv ==
    /\ scenario = "mono_req"
    /\ proc = "running"
    /\ toClient # <<>>
    /\ reply' = Head(toClient)
    /\ toClient' = Tail(toClient)
    /\ repRecv' = repRecv + 1
    /\ proc' = "exited"
    /\ \E rc \in ClientExitCodes : returncode' = rc
    /\ UNCHANGED <<stop, exitedAtStart>>
    /\ UNCHANGED <<toServer, srvPending, reqSent, reqRecv, repSent, sentLog>>
    /\ UNCHANGED <<inputVars, extVars, retVars, ctlVars, sockVars, loopVars, psVars>>

\* zmq.Context(); ctx.socket(zmq.REP); socket.bind(...): the bind raises when
\* the port is taken.
MonoReqBind ==
    /\ pc = "q_bind"
    /\ ctx' = "open"
    /\ socks' = {"rep"}
    /\ \E bound \in BOOLEAN :
          IF bound
          THEN pc' = "q_spawn" /\ raised' = raised
          ELSE pc' = "done" /\ raised' = "ZMQError"
    /\ UNCHANGED failure
    /\ UNCHANGED <<inputVars, extVars, retVars, procVars, rrVars, loopVars, psVars>>

\* client = subprocess.Popen([str(binary), "--port", "15556"], ...)
MonoReqSpawn ==
    /\ pc = "q_spawn"
    /\ \E found \in BOOLEAN :
          IF found
          THEN /\ proc' = "running"
               /\ pc' = "q_recv"
               /\ raised' = raised
          ELSE /\ proc' = proc
               /\ pc' = "done"
               /\ raised' = "FileNotFoundError"
    /\ UNCHANGED <<failure, stop, exitedAtStart, returncode>>
    /\ UNCHANGED <<inputVars, extVars, retVars, sockVars, rrVars, loopVars, psVars>>

\* message = socket.recv(): blocks until the client's request is there.
MonoReqRecv ==
    /\ pc = "q_recv"
    /\ toServer # <<>>
    /\ srvPending' = <<Head(toServer)>>
    /\ toServer' = Tail(toServer)
    /\ reqRecv' = reqRecv + 1
    /\ pc' = "q_assert"
    /\ UNCHANGED <<raised, failure>>
    /\ UNCHANGED <<toClient, reply, reqSent, repSent, repRecv, sentLog>>
    /\ UNCHANGED <<inputVars, extVars, retVars, procVars, sockVars, loopVars, psVars>>

\* assert message == b"Hello from Monocoque"
MonoReqAssert ==
    /\ pc = "q_assert"
    /\ IF srvPending[1][1] = HelloFromMonocoque
       THEN /\ pc' = "q_send"
            /\ UNCHANGED <<raised, failure>>
       ELSE /\ pc' = "q_finally"
            /\ raised' = "AssertionError"
            /\ failure' = <<[index |-> 0, expected |-> HelloFromMonocoque,
                             actual |-> srvPending[1][1]]>>
    /\ UNCHANGED <<inputVars, extVars, retVars, procVars, sockVars, rrVars, loopVars, psVars>>

\* socket.send(b"Echo: Hello from Monocoque")
MonoReqSend ==
    /\ pc = "q_send"
    /\ toClient' = Append(toClient, <<EchoHelloFromMonocoque>>)
    /\ srvPending' = <<>>
    /\ repSent' = repSent + 1
    /\ pc' = "q_wait"
    /\ UNCHANGED <<raised, failure>>
    /\ UNCHANGED <<toServer, reply, reqSent, reqRecv, repRecv, sentLog>>
    /\ UNCHANGED <<inputVars, extVars, retVars, procVars, sockVars, loopVars, psVars>>

\* client.wait(timeout=5); assert client.returncode == 0
MonoReqWait ==
    /\ pc = "q_wait"
    /\ IF proc # "exited"
       THEN raised' = "TimeoutExpired" /\ failure' = failure
       ELSE IF returncode = "0"
            THEN UNCHANGED <<raised, failure>>
            ELSE /\ raised' = "AssertionError"
                 /\ failure' = <<[index |-> 0, expected |-> "0", actual |-> returncode]>>
    /\ pc' = "q_finally"
    /\ UNCHANGED <<inputVars, extVars, retVars, procVars, sockVars, rrVars, loopVars, psVars>>

\* finally: socket.close(); ctx.term(); if client.poll() is None: client.kill()
MonoReqFinally ==
    /\ pc = "q_finally"
    /\ socks' = {}
    /\ ctx' = "closed"
    /\ proc' = IF proc = "running" THEN "exited" ELSE proc
    /\ returncode' = IF proc = "running" THEN "SIGKILL" ELSE returncode
    /\ pc' = "done"
    /\ UNCHANGED <<raised, failure, stop, exitedAtStart>>
    /\ UNCHANGED <<inputVars, extVars, retVars, rrVars, loopVars, psVars>>

\* ------------------------------------------------ bench_req_rep_throughput
\* msg = b"X" * message_size
BenchMsg == <<Xs(message_size)>>

\* zmq.Context(); REP bound to an ephemeral port, REQ connected to it.
BenchSetup ==
    /\ pc = "b_setup"
    /\ ctx' = "open"
    /\ socks' = {"rep", "req"}
    /\ pc' = "b_req_send"
    /\ UNCHANGED <<raised, failure>>
    /\ UNCHANGED <<inputVars, extVars, retVars, procVars, rrVars, loopVars, psVars>>

\* req.send(msg)
BenchReqSend ==
    /\ pc = "b_req_send"
    /\ toServer' = Append(toServer, BenchMsg)
    /\ sentLog' = Append(sentLog, BenchMsg)
    /\ reqSent' = reqSent + 1
    /\ pc' = "b_rep_recv"
    /\ UNCHANGED <<raised, failure>>
    /\ UNCHANGED <<srvPending, toClient, reply, reqRecv, repSent, repRecv>>
    /\ UNCHANGED <<inputVars, extVars, retVars, procVars, sockVars, loopVars, psVars>>

\* rep.recv()
BenchRepRecv ==
    /\ pc = "b_rep_recv"
    /\ toServer # <<>>
    /\ srvPending' = <<Head(toServer)>>
    /\ toServer' = Tail(toServer)
    /\ reqRecv' = reqRecv + 1
    /\ pc' = "b_rep_send"
    /\ UNCHANGED <<raised, failure>>
    /\ UNCHANGED <<toClient, reply, reqSent, repSent, repRecv, sentLog>>
    /\ UNCHANGED <<inputVars, extVars, retVars, procVars, sockVars, loopVars, psVars>>

\* rep.send(msg)
BenchRepSend ==
    /\ pc = "b_rep_send"
    /\ toClient' = Append(toClient, BenchMsg)
    /\ srvPending' = <<>>
    /\ repSent' = repSent + 1
    /\ pc' = "b_req_recv"
    /\ UNCHANGED <<raised, failure>>
    /\ UNCHANGED <<toServer, reply, reqSent, reqRecv, repRecv, sentLog>>
    /\ UNCHANGED <<inputVars, extVars, retVars, procVars, sockVars, loopVars, psVars>>

\* The mutant of BenchReqRecv: the iteration goes on without the reply.
BenchReqRecvSkipped ==
    /\ pc = "b_req_recv"
    /\ i' = i + 1
    /\ timed' = IF clock = "running" THEN timed + 1 ELSE timed
    /\ pc' = IF phase = "warmup"
             THEN (IF i + 1 < WarmupIterations THEN "b_req_send" ELSE "b_start_clock")
             ELSE (IF i + 1 < num_messages THEN "b_req_send" ELSE "b_stop_clock")
    /\ UNCHANGED <<raised, failure, phase, clock>>
    /\ UNCHANGED <<inputVars, extVars, retVars, procVars, sockVars, rrVars, psVars>>

\* req.recv(), the end of one iteration of the warm-up or the measured loop.
BenchReqRecv ==
    /\ pc = "b_req_recv"
    /\ toClient # <<>>
    /\ reply' = Head(toClient)
    /\ toClient' = Tail(toClient)
    /\ repRecv' = repRecv + 1
    /\ i' = i + 1
    /\ timed' = IF clock = "running" THEN timed + 1 ELSE timed
    /\ pc' = IF phase = "warmup"
             THEN (IF i + 1 < WarmupIterations THEN "b_req_send" ELSE "b_start_clock")
             ELSE (IF i + 1 < num_messages THEN "b_req_send" ELSE "b_stop_clock")
    /\ UNCHANGED <<raised, failure, phase, clock>>
    /\ UNCHANGED <<toServer, srvPending, reqSent, reqRecv, repSent, sentLog>>
    /\ UNCHANGED <<inputVars, extVars, retVars, procVars, sockVars, psVars>>

\* The mutant of BenchStartClock: the measured loop goes on from the
\* warm-up's index.
BenchStartClockKeepsIndex ==
    /\ pc = "b_start_clock"
    /\ clock' = "running"
    /\ phase' = "measure"
    /\ pc' = "b_req_send"
    /\ UNCHANGED <<raised, failure, i, timed>>
    /\ UNCHANGED <<inputVars, extVars, retVars, procVars, sockVars, rrVars, psVars>>

\* start = time.time(), after the warm-up loop
BenchStartClock ==
    /\ pc = "b_start_clock"
    /\ clock' = "running"
    /\ phase' = "measure"
    /\ i' = 0
    /\ pc' = "b_req_send"
    /\ UNCHANGED <<raised, failure, timed>>
    /\ UNCHANGED <<inputVars, extVars, retVars, procVars, sockVars, rrVars, psVars>>

\* elapsed = time.time() - start, and the metrics computed from it
BenchStopClock ==
    /\ pc = "b_stop_clock"
    /\ clock' = "stopped"
    /\ pc' = "b_close"
    /\ UNCHANGED <<raised, failure, i, phase, timed>>
    /\ UNCHANGED <<inputVars, extVars, retVars, procVars, sockVars, rrVars, psVars>>

\* The metrics and the returned dict.  Time is counted in exchanges: the
\* elapsed time is the number of exchanges completed while the clock ran.
BenchResult(elapsed) ==
    [throughput |-> Div(Num(num_messages), Num(elapsed)),
     latency_us |-> Mul(Div(Num(elapsed), Num(num_messages)), Num(1000000)),
     elapsed |-> Num(elapsed),
     num_messages |-> num_messages]

\* req.close(); rep.close(); ctx.term(); return {...}
BenchClose ==
    /\ pc = "b_close"
    /\ socks' = {}
    /\ ctx' = "closed"
    /\ pc' = "done"
    /\ result' = <<BenchResult(timed)>>
    /\ UNCHANGED <<raised, failure>>
    /\ UNCHANGED <<inputVars, extVars, procVars, rrVars, loopVars, psVars>>

\* ------------------------------------------------------ publish-subscribe
\* The delivery rule of a subscription: the message starts with the prefix.
Matches(msg, prefix) == StartsWith(msg, prefix)

\* A PUB socket's send: the message goes to the subscriber when its
\* subscription has reached the publisher and matches, and is dropped otherwise.
Forward(msg) ==
    IF subscribed /\ Matches(msg, subPrefix) THEN Append(wire, msg) ELSE wire

\* The subscription of a connected SUB socket, or of the subscriber process,
\* reaches the publisher.
SubscriptionPropagates ==
    /\ ~subscribed
    /\ IF scenario = "topic"
       THEN proc = "running" /\ "pub" \in socks
       ELSE "sub" \in socks /\ (scenario = "mono_pub" => proc = "running")
    /\ subscribed' = TRUE
    /\ UNCHANGED <<subPrefix, published, wire, rcvq, observed, received, receivedList>>
    /\ UNCHANGED <<inputVars, extVars, retVars, ctlVars, procVars, sockVars, rrVars, loopVars>>

\* A message in flight reaches the SUB socket of the scenario.
DeliverToSocket ==
    /\ scenario \in {"bench_ps", "mono_pub"}
    /\ "sub" \in socks
    /\ wire # <<>>
    /\ rcvq' = Append(rcvq, Head(wire))
    /\ wire' = Tail(wire)
    /\ UNCHANGED <<subscribed, subPrefix, published, observed, received, receivedList>>
    /\ UNCHANGED <<inputVars, extVars, retVars, ctlVars, procVars, sockVars, rrVars, loopVars>>

\* A message in flight reaches the subscriber process, which prints it.
DeliverToProcess ==
    /\ scenario = "topic"
    /\ proc = "running"
    /\ wire # <<>>
    /\ observed' = Append(observed, Head(wire))
    /\ wire' = Tail(wire)
    /\ UNCHANGED <<subscribed, subPrefix, published, rcvq, received, receivedList>>
    /\ UNCHANGED <<inputVars, extVars, retVars, ctlVars, procVars, sockVars, rrVars, loopVars>>

\* ------------------------------------------------ bench_pub_sub_throughput
\* zmq.Context(); PUB bound to an ephemeral port; SUB connected, SUBSCRIBE b"".
PubSubSetup ==
    /\ pc = "p_setup"
    /\ ctx' = "open"
    /\ socks' = {"pub", "sub"}
    /\ subPrefix' = EmptyPrefix
    /\ pc' = "p_settle"
    /\ UNCHANGED <<raised, failure>>
    /\ UNCHANGED <<subscribed, published, wire, rcvq, observed, received, receivedList>>
    /\ UNCHANGED <<inputVars, extVars, retVars, procVars, rrVars, loopVars>>

\* time.sleep(0.5); msg = b"X" * message_size; start = time.time()
PubSubSettle ==
    /\ pc = "p_settle"
    /\ pc' = "p_send"
    /\ UNCHANGED <<raised, failure>>
    /\ UNCHANGED <<inputVars, extVars, retVars, procVars, sockVars, rrVars, loopVars, psVars>>

\* pub.send(msg, zmq.NOBLOCK), once per iteration of the send loop
PubSubSend ==
    /\ pc = "p_send"
    /\ published' = Append(published, Xs(message_size))
    /\ wire' = Forward(Xs(message_size))
    /\ i' = i + 1
    /\ pc' = IF i + 1 < num_messages THEN "p_send" ELSE "p_poll"
    /\ UNCHANGED <<raised, failure, phase, clock, timed>>
    /\ UNCHANGED <<subscribed, subPrefix, rcvq, observed, received, receivedList>>
    /\ UNCHANGED <<inputVars, extVars, retVars, procVars, sockVars, rrVars>>

\* One pass of `while received < num_messages`: sub.recv(zmq.NOBLOCK) takes a
\* message that has arrived, or raises zmq.Again.
PubSubPoll ==
    /\ pc = "p_poll"
    /\ IF rcvq # <<>>
       THEN /\ rcvq' = Tail(rcvq)
            /\ received' = received + 1
            /\ pc' = IF received + 1 < num_messages THEN "p_poll" ELSE "p_close"
       ELSE /\ UNCHANGED <<rcvq, received>>
            /\ pc' = "p_sleep"
    /\ UNCHANGED <<raised, failure>>
    /\ UNCHANGED <<subscribed, subPrefix, published, wire, observed, receivedList>>
    /\ UNCHANGED <<inputVars, extVars, retVars, procVars, sockVars, rrVars, loopVars>>

\* except zmq.Again: time.sleep(0.001), and back to the loop condition
PubSubSleep ==
    /\ pc = "p_sleep"
    /\ pc' = "p_poll"
    /\ UNCHANGED <<raised, failure>>
    /\ UNCHANGED <<inputVars, extVars, retVars, procVars, sockVars, rrVars, loopVars, psVars>>

\* pub.close(); sub.close(); ctx.term(); return
PubSubClose ==
    /\ pc = "p_close"
    /\ socks' = {}
    /\ ctx' = "closed"
    /\ pc' = "done"
    /\ UNCHANGED <<raised, failure>>
    /\ UNCHANGED <<inputVars, extVars, retVars, procVars, rrVars, loopVars, psVars>>

\* ---------------------------------------- test_monocoque_pub_to_libzmq_sub
\* What the publisher under test emits: "Hello ..." messages by its contract.
PublisherMessages == IF conformant THEN {Hello} ELSE {Hello, Alert}

\* The publisher process publishes one message.
PublisherSend ==
    /\ scenario = "mono_pub"
    /\ proc = "running"
    /\ Len(published) < MaxPublished
    /\ \E msg \in PublisherMessages :
          /\ published' = Append(published, msg)
          /\ wire' = Forward(msg)
    /\ UNCHANGED <<subscribed, subPrefix, rcvq, observed, received, receivedList>>
    /\ UNCHANGED <<inputVars, extVars, retVars, ctlVars, procVars, sockVars, rrVars, loopVars>>

\* subprocess.Popen(["cargo", "run", "--example", "pub_server", ...])
MonoPubSpawn ==
    /\ pc = "m_spawn"
    /\ \E found \in BOOLEAN :
          IF found
          THEN /\ proc' = "running"
               /\ pc' = "m_settle"
               /\ raised' = raised
          ELSE /\ proc' = proc
               /\ pc' = "done"
               /\ raised' = "FileNotFoundError"
    /\ UNCHANGED <<failure, stop, exitedAtStart, returncode>>
    /\ UNCHANGED <<inputVars, extVars, retVars, sockVars, rrVars, loopVars, psVars>>

\* time.sleep(1)  # Let publisher bind
MonoPubSettle ==
    /\ pc = "m_settle"
    /\ exitedAtStart' = (proc = "exited")
    /\ pc' = "m_setup"
    /\ UNCHANGED <<raised, failure, proc, stop, returncode>>
    /\ UNCHANGED <<inputVars, extVars, retVars, sockVars, rrVars, loopVars, psVars>>

\* zmq.Context(); SUB socket connected; SUBSCRIBE b""; time.sleep(0.5); received = []
MonoPubSetup ==
    /\ pc = "m_setup"
    /\ ctx' = "open"
    /\ socks' = {"sub"}
    /\ subPrefix' = EmptyPrefix
    /\ receivedList' = <<>>
    /\ pc' = "m_recv"
    /\ UNCHANGED <<raised, failure>>
    /\ UNCHANGED <<subscribed, published, wire, rcvq, observed, received>>
    /\ UNCHANGED <<inputVars, extVars, retVars, procVars, rrVars, loopVars>>

\* The mutant of MonoPubRecv: every receive waits for its message.
MonoPubRecvWaits ==
    /\ pc = "m_recv"
    /\ rcvq # <<>>
    /\ receivedList' = Append(receivedList, Head(rcvq))
    /\ rcvq' = Tail(rcvq)
    /\ i' = i + 1
    /\ pc' = IF i + 1 < PubSubReceives THEN "m_recv" ELSE "m_assert"
    /\ UNCHANGED <<raised, failure, phase, clock, timed>>
    /\ UNCHANGED <<subscribed, subPrefix, published, wire, observed, received>>
    /\ UNCHANGED <<inputVars, extVars, retVars, procVars, sockVars, rrVars>>

\* msg = socket.recv(flags=zmq.NOBLOCK if received else 0); received.append(msg)
\* The first receive blocks; a later one raises zmq.Again when nothing arrived.
MonoPubRecv ==
    /\ pc = "m_recv"
    /\ receivedList = <<>> => rcvq # <<>>
    /\ IF rcvq # <<>>
       THEN /\ receivedList' = Append(receivedList, Head(rcvq))
            /\ rcvq' = Tail(rcvq)
            /\ i' = i + 1
            /\ pc' = IF i + 1 < PubSubReceives THEN "m_recv" ELSE "m_assert"
            /\ raised' = raised
       ELSE /\ UNCHANGED <<receivedList, rcvq, i>>
            /\ raised' = "Again"
            /\ pc' = "stop_signal"
    /\ UNCHANGED <<failure, phase, clock, timed>>
    /\ UNCHANGED <<subscribed, subPrefix, published, wire, observed, received>>
    /\ UNCHANGED <<inputVars, extVars, retVars, procVars, sockVars, rrVars>>

\* assert len(received) == 5; assert b"Hello" in received[0]
MonoPubAssert ==
    /\ pc = "m_assert"
    /\ IF Len(receivedList) = PubSubReceives /\ IsInfix(Hello, receivedList[1])
       THEN /\ pc' = "m_close"
            /\ UNCHANGED <<raised, failure>>
       ELSE /\ pc' = "stop_signal"
            /\ raised' = "AssertionError"
            /\ failure' = <<[index |-> 0, expected |-> Hello, actual |-> receivedList[1]]>>
    /\ UNCHANGED <<inputVars, extVars, retVars, procVars, sockVars, rrVars, loopVars, psVars>>

\* socket.close(); ctx.term()
MonoPubClose ==
    /\ pc = "m_close"
    /\ socks' = {}
    /\ ctx' = "closed"
    /\ pc' = "stop_signal"
    /\ UNCHANGED <<raised, failure>>
    /\ UNCHANGED <<inputVars, extVars, retVars, procVars, rrVars, loopVars, psVars>>

\* ------------------------------------------------------ test_topic_filtering
\* The four messages the test publishes, in order.
TopicMessages == <<InfoNormal, AlertImportant, DebugDebug, AlertCritical>>

\* The prefix the subscriber under test subscribes with, given --topic.
SubscriberPrefixes(topic) == IF conformant THEN {topic} ELSE {topic, EmptyPrefix}

\* The --topic argument the test passes to sub_client.
TopicArg == Alert

\* zmq.Context(); pub = ctx.socket(zmq.PUB); pub.bind(...): the bind raises
\* when the port is taken.
TopicBind ==
    /\ pc = "t_bind"
    /\ ctx' = "open"
    /\ socks' = {"pub"}
    /\ \E bound \in BOOLEAN :
          IF bound
          THEN pc' = "t_spawn" /\ raised' = raised
          ELSE pc' = "done" /\ raised' = "ZMQError"
    /\ UNCHANGED failure
    /\ UNCHANGED <<inputVars, extVars, retVars, procVars, rrVars, loopVars, psVars>>

\* time.sleep(0.5); subprocess.Popen(["cargo", "run", ..., "--topic", "ALERT"])
TopicSpawn ==
    /\ pc = "t_spawn"
    /\ \E found \in BOOLEAN :
          IF found
          THEN /\ proc' = "running"
               /\ \E p \in SubscriberPrefixes(TopicArg) : subPrefix' = p
               /\ pc' = "t_settle"
               /\ raised' = raised
          ELSE /\ proc' = proc
               /\ subPrefix' = subPrefix
               /\ pc' = "done"
               /\ raised' = "FileNotFoundError"
    /\ UNCHANGED <<failure, stop, exitedAtStart, returncode>>
    /\ UNCHANGED <<subscribed, published, wire, rcvq, observed, received, receivedList>>
    /\ UNCHANGED <<inputVars, extVars, retVars, sockVars, rrVars, loopVars>>

\* time.sleep(1), before the try block
TopicSettle ==
    /\ pc = "t_settle"
    /\ exitedAtStart' = (proc = "exited")
    /\ pc' = "t_pub"
    /\ UNCHANGED <<raised, failure, proc, stop, returncode>>
    /\ UNCHANGED <<inputVars, extVars, retVars, sockVars, rrVars, loopVars, psVars>>

\* pub.send(...), one of the four sends
TopicPublish ==
    /\ pc = "t_pub"
    /\ published' = Append(published, TopicMessages[i + 1])
    /\ wire' = Forward(TopicMessages[i + 1])
    /\ i' = i + 1
    /\ pc' = IF i + 1 < Len(TopicMessages) THEN "t_pub" ELSE "t_window"
    /\ UNCHANGED <<raised, failure, phase, clock, timed>>
    /\ UNCHANGED <<subscribed, subPrefix, rcvq, observed, received, receivedList>>
    /\ UNCHANGED <<inputVars, extVars, retVars, procVars, sockVars, rrVars>>

\* time.sleep(1); subscriber.send_signal(signal.SIGTERM)
TopicTerminate ==
    /\ pc = "t_window"
    /\ \E exits \in BOOLEAN :
          /\ proc' = IF proc = "running" /\ exits THEN "exited" ELSE proc
          /\ returncode' = IF proc = "running" /\ exits THEN "SIGTERM" ELSE returncode
    /\ stop' = "signalled"
    /\ pc' = "t_communicate"
    /\ UNCHANGED <<raised, failure, exitedAtStart>>
    /\ UNCHANGED <<inputVars, extVars, retVars, sockVars, rrVars, loopVars, psVars>>

\* stdout, _ = subscriber.communicate(timeout=5); output = stdout.decode()
TopicCommunicate ==
    /\ pc = "t_communicate"
    /\ IF proc = "exited"
       THEN pc' = "t_assert" /\ raised' = raised /\ stop' = "returned"
       ELSE pc' = "t_finally" /\ raised' = "TimeoutExpired" /\ stop' = "timed_out"
    /\ UNCHANGED <<failure, proc, exitedAtStart, returncode>>
    /\ UNCHANGED <<inputVars, extVars, retVars, sockVars, rrVars, loopVars, psVars>>

\* The four asserts on the subscriber's output.
TopicAsserts(output) ==
    << <<InOutput(ImportantMessage, output), TRUE, InOutput(ImportantMessage, output)>>,
       <<InOutput(CriticalMessage, output), TRUE, InOutput(CriticalMessage, output)>>,
       <<~InOutput(NormalMessage, output), FALSE, InOutput(NormalMessage, output)>>,
       <<~InOutput(DebugMessage, output), FALSE, InOutput(DebugMessage, output)>> >>

TopicAssert ==
    /\ pc = "t_assert"
    /\ LET as == TopicAsserts(observed)
           n == FirstFailing(as)
       IN  IF n = 0
           THEN UNCHANGED <<raised, failure>>
           ELSE /\ raised' = "AssertionError"
                /\ failure' = <<[index |-> n - 1, expected |-> as[n][2], actual |-> as[n][3]]>>
    /\ pc' = "t_finally"
    /\ UNCHANGED <<inputVars, extVars, retVars, procVars, sockVars, rrVars, loopVars, psVars>>

\* finally: pub.close(); ctx.term(); if subscriber.poll() is None: subscriber.kill()
TopicFinally ==
    /\ pc = "t_finally"
    /\ socks' = {}
    /\ ctx' = "closed"
    /\ proc' = IF proc = "running" THEN "exited" ELSE proc
    /\ returncode' = IF proc = "running" THEN "SIGKILL" ELSE returncode
    /\ pc' = "done"
    /\ UNCHANGED <<raised, failure, stop, exitedAtStart>>
    /\ UNCHANGED <<inputVars, extVars, retVars, rrVars, loopVars, psVars>>

\* ------------------------------------------------- analyze_benchmarks.py
\* ---- parse_criterion_results
\* The entry of a benchmark, from the data of its estimates file.
Entry(data) ==
    LET mean == Get(data, "mean", EmptyDict)
        throughput == Get(data, "throughput", EmptyDict)
        interval == Get(mean, "confidence_interval", EmptyDict)
    IN  [mean |-> Ratio(Get(mean, "point_estimate", 0), NsPerMs),
         mean_lower |-> Ratio(Get(interval, "lower_bound", 0), NsPerMs),
         mean_upper |-> Ratio(Get(interval, "upper_bound", 0), NsPerMs),
         throughput |-> throughput]

\* The mutant of EstimatesFile: the "new" snapshot is preferred.
EstimatesFileNewFirst(bench_dir) ==
    IF "new" \in DOMAIN bench_dir.files THEN "new"
    ELSE IF "base" \in DOMAIN bench_dir.files THEN "base"
    ELSE "none"

\* The snapshot whose estimates.json is read: "base", else "new", else none.
EstimatesFile(bench_dir) ==
    IF "base" \in DOMAIN bench_dir.files THEN "base"
    ELSE IF "new" \in DOMAIN bench_dir.files THEN "new"
    ELSE "none"

\* name in results, results[name]
Has(dict, name) == \E k \in 1..Len(dict) : dict[k].name = name
Item(dict, name) == dict[CHOOSE k \in 1..Len(dict) : dict[k].name = name].data

\* main up to the first directory entry: results = defaultdict(dict), iterdir()
ParseStart ==
    /\ pc = "a_main"
    /\ remaining' = criterion_dir
    /\ results' = <<>>
    /\ pc' = "a_iter"
    /\ UNCHANGED <<criterion_dir, summary>>
    /\ UNCHANGED <<inputVars, sessVars, retVars, raised, failure, procVars, sockVars, rrVars, loopVars, psVars>>

\* One iteration of `for bench_dir in criterion_dir.iterdir()`, the entries
\* coming in any order.
ParseDir ==
    /\ pc = "a_iter"
    /\ \E bench_dir \in remaining :
          /\ remaining' = remaining \ {bench_dir}
          /\ results' =
                IF ~bench_dir.is_dir \/ bench_dir.name = Report
                THEN results
                ELSE IF EstimatesFile(bench_dir) = "none"
                THEN results
                ELSE Append(results,
                            [name |-> bench_dir.name,
                             data |-> Entry(bench_dir.files[EstimatesFile(bench_dir)])])
    /\ UNCHANGED <<criterion_dir, summary>>
    /\ UNCHANGED <<inputVars, sessVars, retVars, ctlVars, procVars, sockVars, rrVars, loopVars, psVars>>

\* return results; summary = generate_summary(results)
ParseReturn ==
    /\ pc = "a_iter"
    /\ remaining = {}
    /\ pc' = "g_sections"
    /\ UNCHANGED <<inputVars, extVars, retVars, raised, failure, procVars, sockVars, rrVars, loopVars, psVars>>

\* ---- format_throughput and generate_summary
\* A line of the summary: what it is, the name it shows, the numbers it
\* shows (in hundredths), and the unit after them.
Line(kind, name, digits, suffix) ==
    [kind |-> kind, name |-> name, digits |-> digits, suffix |-> suffix]

\* The mutant of format_throughput: a value at a threshold stays in the
\* smaller unit.
format_throughput_above(value, unit) ==
    IF unit = "bytes"
    THEN IF Less(Num(1000000000), value)
         THEN [digits |-> Fixed2(Div(value, Num(1000000000))), suffix |-> " GiB/s"]
         ELSE IF Less(Num(1000000), value)
         THEN [digits |-> Fixed2(Div(value, Num(1000000))), suffix |-> " MiB/s"]
         ELSE [digits |-> Fixed2(Div(value, Num(1000))), suffix |-> " KiB/s"]
    ELSE IF Less(Num(1000000), value)
         THEN [digits |-> Fixed2(Div(value, Num(1000000))), suffix |-> "M msg/s"]
         ELSE IF Less(Num(1000), value)
         THEN [digits |-> Fixed2(Div(value, Num(1000))), suffix |-> "K msg/s"]
         ELSE [digits |-> Fixed2(value), suffix |-> " msg/s"]

\* format_throughput(value, unit): the digits and the unit of the string.
format_throughput(value, unit) ==
    IF unit = "bytes"
    THEN IF Leq(Num(1000000000), value)
         THEN [digits |-> Fixed2(Div(value, Num(1000000000))), suffix |-> " GiB/s"]
         ELSE IF Leq(Num(1000000), value)
         THEN [digits |-> Fixed2(Div(value, Num(1000000))), suffix |-> " MiB/s"]
         ELSE [digits |-> Fixed2(Div(value, Num(1000))), suffix |-> " KiB/s"]
    ELSE IF Leq(Num(1000000), value)
         THEN [digits |-> Fixed2(Div(value, Num(1000000))), suffix |-> "M msg/s"]
         ELSE IF Leq(Num(1000), value)
         THEN [digits |-> Fixed2(Div(value, Num(1000))), suffix |-> "K msg/s"]
         ELSE [digits |-> Fixed2(value), suffix |-> " msg/s"]

\* if data['throughput'] and 'per_iteration' in data['throughput']
HasThroughput(data) ==
    DOMAIN data.throughput # {} /\ "per_iteration" \in DOMAIN data.throughput

\* value / (mean / 1000) raises ZeroDivisionError when the mean is 0.
ThroughputRaises(data) == HasThroughput(data) /\ data.mean.num = 0

\* throughput = value / (mean / 1000), per second
Throughput(data) ==
    Div(Num(data.throughput.per_iteration), Div(data.mean, Num(MsPerSecond)))

\* The throughput line of a benchmark, of kind "throughput" or "pipelined".
ThroughputLine(kind, item) ==
    LET text == format_throughput(Throughput(item.data),
                                  Get(item.data.throughput, "unit", "bytes"))
    IN  Line(kind, item.name, <<text.digits>>, text.suffix)

\* sorted(...) by name; the names of a dict differ.
RECURSIVE InsertByName(_, _)
InsertByName(sorted, x) ==
    IF sorted = <<>> THEN <<x>>
    ELSE IF StrLess(x.name, Head(sorted).name) THEN <<x>> \o sorted
    ELSE <<Head(sorted)>> \o InsertByName(Tail(sorted), x)

\* The mutant of SortByName: the order of insertion is kept.
Unsorted(seq) == seq

RECURSIVE SortByName(_)
SortByName(seq) ==
    IF seq = <<>> THEN <<>>
    ELSE InsertByName(SortByName(SubSeq(seq, 1, Len(seq) - 1)), seq[Len(seq)])

\* sorted(pipelined, key=lambda x: x[1]['mean']): ascending, equal keys in
\* their original order.
RECURSIVE InsertByMean(_, _)
InsertByMean(sorted, x) ==
    IF sorted = <<>> THEN <<x>>
    ELSE IF Less(x.data.mean, Head(sorted).data.mean) THEN <<x>> \o sorted
    ELSE <<Head(sorted)>> \o InsertByMean(Tail(sorted), x)

RECURSIVE SortByMean(_)
SortByMean(seq) ==
    IF seq = <<>> THEN <<>>
    ELSE InsertByMean(SortByMean(SubSeq(seq, 1, Len(seq) - 1)), seq[Len(seq)])

\* sorted(comparisons, key=lambda x: x[1], reverse=True): descending, equal
\* keys in their original order.
RECURSIVE InsertBySpeedup(_, _)
InsertBySpeedup(sorted, x) ==
    IF sorted = <<>> THEN <<x>>
    ELSE IF Less(Head(sorted).speedup, x.speedup) THEN <<x>> \o sorted
    ELSE <<Head(sorted)>> \o InsertBySpeedup(Tail(sorted), x)

RECURSIVE SortBySpeedup(_)
SortBySpeedup(seq) ==
    IF seq = <<>> THEN <<>>
    ELSE InsertBySpeedup(SortBySpeedup(SubSeq(seq, 1, Len(seq) - 1)), seq[Len(seq)])

\* The lists of lines of a loop, one after the other.
RECURSIVE Concat(_)
Concat(seqs) == IF seqs = <<>> THEN <<>> ELSE Head(seqs) \o Concat(Tail(seqs))

\* The keys of `categories`, in the order of their first append.
RECURSIVE CategoryKeys(_)
CategoryKeys(items) ==
    IF items = <<>> THEN <<>>
    ELSE LET front == CategoryKeys(SubSeq(items, 1, Len(items) - 1))
             key == [name |-> Category(items[Len(items)].name)]
         IN  IF \E k \in 1..Len(front) : front[k] = key THEN front ELSE Append(front, key)

\* The lines of one benchmark in its section.
BenchLines(item) ==
    <<Line("bench", item.name, <<>>, ""),
      Line("mean", <<>>,
           <<Fixed2(item.data.mean), Fixed2(item.data.mean_lower), Fixed2(item.data.mean_upper)>>,
           " ms")>>
        \o (IF HasThroughput(item.data) THEN <<ThroughputLine("throughput", item)>> ELSE <<>>)
        \o <<Line("blank", <<>>, <<>>, "")>>

\* The section of a category: its heading and its benchmarks.
SectionLines(category, benches) ==
    <<Line("category", ToUpper(category), <<>>, "")>>
        \o Concat([k \in 1..Len(benches) |-> BenchLines(benches[k])])

\* The title and the category sections, from the results grouped by category.
Sections(dict) ==
    LET items == SortByName(dict)
        keys == SortByName(CategoryKeys(items))
    IN  <<Line("title", <<>>, <<>>, ""), Line("generated", <<>>, <<>>, "")>>
            \o Concat([k \in 1..Len(keys) |->
                        SectionLines(keys[k].name,
                                     SelectSeq(items, LAMBDA it : Category(it.name) = keys[k].name))])

\* generate_summary, the title and the loop over the categories.
SummarySections ==
    /\ pc = "g_sections"
    /\ IF \E k \in 1..Len(results) : ThroughputRaises(results[k].data)
       THEN /\ raised' = "ZeroDivisionError"
            /\ pc' = "done"
            /\ summary' = summary
       ELSE /\ summary' = Sections(results)
            /\ pc' = "g_highlights"
            /\ raised' = raised
    /\ UNCHANGED <<criterion_dir, remaining, results>>
    /\ UNCHANGED <<inputVars, sessVars, retVars, failure, procVars, sockVars, rrVars, loopVars, psVars>>

\* pipelined = [... if 'pipelined' in name]
PipelinedItems(dict) == SelectSeq(dict, LAMBDA it : IsInfix(Pipelined, it.name))

\* The performance highlights: the pipelined benchmarks by their mean.
Highlights(dict) ==
    LET pipelined == SortByMean(PipelinedItems(dict))
        shown == SelectSeq(pipelined, LAMBDA it : HasThroughput(it.data))
    IN  <<Line("highlights", <<>>, <<>>, "")>>
            \o (IF pipelined = <<>> THEN <<>>
                ELSE <<Line("pipelined_heading", <<>>, <<>>, "")>>
                        \o [k \in 1..Len(shown) |-> ThroughputLine("pipelined", shown[k])]
                        \o <<Line("blank", <<>>, <<>>, "")>>)

\* generate_summary, the performance highlights.
SummaryHighlights ==
    /\ pc = "g_highlights"
    /\ IF \E k \in 1..Len(results) :
             IsInfix(Pipelined, results[k].name) /\ ThroughputRaises(results[k].data)
       THEN /\ raised' = "ZeroDivisionError"
            /\ pc' = "done"
            /\ summary' = summary
       ELSE /\ summary' = summary \o Highlights(results)
            /\ pc' = "g_compare"
            /\ raised' = raised
    /\ UNCHANGED <<criterion_dir, remaining, results>>
    /\ UNCHANGED <<inputVars, sessVars, retVars, failure, procVars, sockVars, rrVars, loopVars, psVars>>

\* The benchmarks that are compared: 'monocoque' in name and base in results.
Compared(dict) ==
    SelectSeq(dict, LAMBDA it : IsInfix(Monocoque, it.name) /\ Has(dict, Counterpart(it.name)))

\* The mutant of Speedup: the monocoque time is taken in seconds.
SpeedupPerSecond(mono_time, zmq_time) == Div(zmq_time, Div(mono_time, Num(MsPerSecond)))

\* speedup = zmq_time / mono_time
Speedup(mono_time, zmq_time) == Div(zmq_time, mono_time)

\* comparisons, in the order of the results
Comparisons(dict) ==
    LET compared == Compared(dict)
    IN  [k \in 1..Len(compared) |->
            [name |-> compared[k].name,
             speedup |-> Speedup(compared[k].data.mean,
                                 Item(dict, Counterpart(compared[k].name)).mean)]]

\* The line of a comparison: faster by speedup, or slower by 1 / speedup.
ComparisonLine(c) ==
    IF Less(Num(1), c.speedup)
    THEN Line("faster", c.name, <<Fixed2(c.speedup)>>, "x faster")
    ELSE Line("slower", c.name, <<Fixed2(Div(Num(1), c.speedup))>>, "x slower")

\* The comparison with rust-zmq, by descending speedup.
ComparisonLines(dict) ==
    LET comparisons == SortBySpeedup(Comparisons(dict))
    IN  IF comparisons = <<>> THEN <<>>
        ELSE <<Line("comparison_heading", <<>>, <<>>, "")>>
                \o [k \in 1..Len(comparisons) |-> ComparisonLine(comparisons[k])]
                \o <<Line("blank", <<>>, <<>>, "")>>

\* zmq_time / mono_time raises when the monocoque mean is 0, and 1 / speedup
\* when the counterpart's mean is 0.
ComparisonRaises(dict) ==
    \E k \in 1..Len(Compared(dict)) :
        \/ Compared(dict)[k].data.mean.num = 0
        \/ Item(dict, Counterpart(Compared(dict)[k].name)).mean.num = 0

\* generate_summary, the comparison with rust-zmq and the return.
SummaryComparisons ==
    /\ pc = "g_compare"
    /\ IF ComparisonRaises(results)
       THEN /\ raised' = "ZeroDivisionError"
            /\ summary' = summary
       ELSE /\ summary' = summary \o ComparisonLines(results)
            /\ raised' = raised
    /\ pc' = "done"
    /\ UNCHANGED <<criterion_dir, remaining, results>>
    /\ UNCHANGED <<inputVars, sessVars, retVars, failure, procVars, sockVars, rrVars, loopVars, psVars>>

\* ------------------------------------------------------ concurrent sessions
\* The ports in use by the sessions that are running.
PortsInUse == {sessions[k].port : k \in {j \in 1..Len(sessions) : sessions[j].state = "open"}}

\* A session reaches its bind or connect: a fixed port is used as written,
\* port 0 is replaced by a free port that is read back (LAST_ENDPOINT).
SessionOpen ==
    /\ scenario = "concurrent"
    /\ \E k \in 1..Len(sessions) :
          /\ sessions[k].state = "idle"
          /\ \E p \in (IF sessions[k].port = 0
                       THEN EphemeralPorts \ PortsInUse
                       ELSE {sessions[k].port}) :
                sessions' = [sessions EXCEPT ![k].port = p, ![k].state = "open"]
    /\ UNCHANGED <<inputVars, aggVars, retVars, ctlVars, procVars, sockVars, rrVars, loopVars, psVars>>

\* A session closes its sockets and ends.
SessionClose ==
    /\ scenario = "concurrent"
    /\ \E k \in 1..Len(sessions) :
          /\ sessions[k].state = "open"
          /\ sessions' = [sessions EXCEPT ![k].state = "closed"]
    /\ UNCHANGED <<inputVars, aggVars, retVars, ctlVars, procVars, sockVars, rrVars, loopVars, psVars>>

Next ==
    \/ ParseStart
    \/ ParseDir
    \/ ParseReturn
    \/ SummarySections
    \/ SummaryHighlights
    \/ SummaryComparisons
    \/ SessionOpen
    \/ SessionClose
    \/ ClientProcSend
    \/ ClientProcRecv
    \/ MonoReqBind
    \/ MonoReqSpawn
    \/ MonoReqRecv
    \/ MonoReqAssert
    \/ MonoReqSend
    \/ MonoReqWait
    \/ MonoReqFinally
    \/ SubscriptionPropagates
    \/ DeliverToSocket
    \/ DeliverToProcess
    \/ PubSubSetup
    \/ PubSubSettle
    \/ PubSubSend
    \/ PubSubPoll
    \/ PubSubSleep
    \/ PubSubClose
    \/ PublisherSend
    \/ MonoPubSpawn
    \/ MonoPubSettle
    \/ MonoPubSetup
    \/ MonoPubRecv
    \/ MonoPubAssert
    \/ MonoPubClose
    \/ TopicBind
    \/ TopicSpawn
    \/ TopicSettle
    \/ TopicPublish
    \/ TopicTerminate
    \/ TopicCommunicate
    \/ TopicAssert
    \/ TopicFinally
    \/ StartPopen
    \/ StartSettle
    \/ ClientSetup
    \/ ReqSend
    \/ ReqRecv
    \/ Check
    \/ Close
    \/ StopSignal
    \/ StopWait
    \/ BenchSetup
    \/ BenchReqSend
    \/ BenchRepRecv
    \/ BenchRepSend
    \/ BenchReqRecv
    \/ BenchStartClock
    \/ BenchStopClock
    \/ BenchClose
    \/ ServerRecv
    \/ ServerSend
    \/ ProcExit

Spec == Init /\ [][Next]_vars

\* The steps of the scenario's own control flow: a running program goes on.
\* The network delivers what is in flight and propagates a subscription.
\* The peer processes answer; nothing obliges a process to exit on its own.
\* The side-by-side sessions and the run of analyze_benchmarks.py are under
\* no fairness condition.
ScenarioStep ==
    \/ StartPopen \/ StartSettle \/ ClientSetup \/ ReqSend \/ ReqRecv \/ Check
    \/ Close \/ StopSignal \/ StopWait
    \/ MonoReqBind \/ MonoReqSpawn \/ MonoReqRecv \/ MonoReqAssert \/ MonoReqSend
    \/ MonoReqWait \/ MonoReqFinally
    \/ BenchSetup \/ BenchReqSend \/ BenchRepRecv \/ BenchRepSend \/ BenchReqRecv
    \/ BenchStartClock \/ BenchStopClock \/ BenchClose
    \/ PubSubSetup \/ PubSubSettle \/ PubSubSend \/ PubSubPoll \/ PubSubSleep
    \/ PubSubClose
    \/ MonoPubSpawn \/ MonoPubSettle \/ MonoPubSetup \/ MonoPubRecv
    \/ MonoPubAssert \/ MonoPubClose
    \/ TopicBind \/ TopicSpawn \/ TopicSettle \/ TopicPublish \/ TopicTerminate
    \/ TopicCommunicate \/ TopicAssert \/ TopicFinally

FairSpec ==
    /\ Spec
    /\ WF_vars(ScenarioStep)
    /\ WF_vars(SubscriptionPropagates)
    /\ WF_vars(DeliverToSocket)
    /\ WF_vars(DeliverToProcess)
    /\ WF_vars(ServerRecv)
    /\ WF_vars(ServerSend)
    /\ WF_vars(ClientProcSend)
    /\ WF_vars(ClientProcRecv)

\* ------------------------------------------------------------------ claims
\* The requests test_multiple_request_cycles has sent after n sends.
CycleRequests(n) == [k \in 1..n |-> Request("cycles", k - 1)]

\* The subsequence of `msgs` that starts with `prefix`, in order.
Filtered(msgs, prefix) == SelectSeq(msgs, LAMBDA m : StartsWith(m, prefix))

\* C1: in bench_req_rep_throughput and test_multiple_request_cycles the
\* requester has at most one request outstanding (requests sent minus replies
\* received is 0 or 1) and the replier never sends more replies than it has
\* received requests.
C1_StrictAlternation ==
    scenario \in {"bench_rr", "cycles"} =>
        /\ reqSent - repRecv \in {0, 1}
        /\ repSent <= reqRecv

\* C1's case: the measured loop with a second request out and one reply back.
C1_Witness ==
    /\ scenario = "bench_rr"
    /\ phase = "measure"
    /\ reqSent = WarmupIterations + 2
    /\ repRecv = WarmupIterations + 1
    /\ repSent = reqRecv

\* C2: once stop has ended, by returning or by raising, the process it was
\* called on is no longer running.
C2_StopLeavesNoProcess ==
    (scenario \in StopUsers /\ stop \in {"returned", "timed_out"}) => proc # "running"

\* C3: when a scenario has ended, on any path, its child process is not
\* running and its sockets and context are closed.
C3_CleanupOnAllExitPaths ==
    pc = "done" => (proc # "running" /\ socks = {} /\ ctx # "open")

\* C4: the receive loop of bench_pub_sub_throughput terminates in every run.
C4_ReceiveLoopTerminates ==
    (scenario = "bench_ps") => <>(pc = "done")

\* C5: a scenario that waits in a blocking receive is never stuck there: as
\* long as it has not ended, a step (a message arriving, or the timeout that
\* aborts the wait) is possible.
C5_BlockingReceiveBounded ==
    pc \in {"recv", "q_recv", "m_recv"} => ENABLED Next

\* C6: in test_topic_filtering, with a conforming subscriber subscribed to
\* "ALERT", the output the test reads is exactly the published messages that
\* start with "ALERT", in publish order.
C6_ObservedIsMatchingSubsequence ==
    (scenario = "topic" /\ conformant /\ pc = "t_assert") =>
        observed = Filtered(published, Alert)

\* C7: in bench_pub_sub_throughput, once all messages are published and none
\* is in flight or waiting in the socket, the empty-prefix subscriber has
\* collected as many messages as were published.
C7_CollectsAllPublished ==
    (/\ scenario = "bench_ps"
     /\ Len(published) = num_messages
     /\ wire = <<>>
     /\ rcvq = <<>>) => received = Len(published)

C10_NoTrafficAfterFailedStart ==
    scenario \in EchoClients =>
        ((exitedAtStart \/ raised = "FileNotFoundError") => reqSent = 0)

\* C18: in bench_req_rep_throughput the clock starts after exactly 100
\* complete warm-up exchanges, the measured phase makes exactly num_messages
\* complete exchanges, and the returned num_messages, elapsed, throughput
\* (N / elapsed) and latency_us (elapsed / N * 1e6) count the measured
\* exchanges only.
C18_WarmupPrecedesMeasurement ==
    scenario = "bench_rr" =>
        /\ clock = "off" =>
              (phase = "warmup" /\ timed = 0 /\ repRecv <= WarmupIterations)
        /\ clock # "off" =>
              (phase = "measure" /\ repRecv = WarmupIterations + timed)
        /\ clock = "stopped" => timed = num_messages
        /\ pc = "done" =>
              /\ repRecv = WarmupIterations + num_messages
              /\ result = <<[throughput |-> Ratio(num_messages, timed),
                             latency_us |-> Ratio(timed * 1000000, num_messages),
                             elapsed |-> Ratio(num_messages, 1),
                             num_messages |-> repRecv - WarmupIterations]>>

C18_Witness ==
    /\ scenario = "bench_rr"
    /\ pc = "done"
    /\ num_messages = MaxMessages
    /\ repRecv = WarmupIterations + MaxMessages
    /\ result # <<>>
    /\ result[1].num_messages = MaxMessages

\* C20: in test_monocoque_pub_to_libzmq_sub the first receive waits for a
\* message and each later one does not: polled with nothing arrived it
\* raises zmq.Again, which ends the loop for the cleanup with 1 to 4 messages
\* collected; the asserts are reached with exactly 5, so the count never
\* mismatches.
C20_LaterReceivesDoNotWait ==
    scenario = "mono_pub" =>
        /\ (pc = "m_recv" /\ receivedList = <<>> /\ rcvq = <<>>) => ~ENABLED MonoPubRecv
        /\ (pc = "m_recv" /\ receivedList # <<>>) => ENABLED MonoPubRecv
        /\ pc = "m_assert" => Len(receivedList) = PubSubReceives
        /\ raised = "Again" =>
              /\ Len(receivedList) \in 1..(PubSubReceives - 1)
              /\ pc \in {"stop_signal", "stop_wait", "done"}
        /\ raised = "AssertionError" => Len(receivedList) = PubSubReceives

C20_Witness ==
    /\ scenario = "mono_pub"
    /\ raised = "Again"
    /\ Len(receivedList) = 2
    /\ Len(published) > 2
    /\ pc = "done"

\* C11: the ports of two entry points of the repository that run at the same
\* time are distinct: no port is in use by both sessions at once.
C11_PortsExclusive ==
    scenario = "concurrent" =>
        \A j, k \in 1..Len(sessions) :
            (j # k /\ sessions[j].state = "open" /\ sessions[k].state = "open")
                => sessions[j].port # sessions[k].port

\* The run is past parse_criterion_results.
Parsed == scenario = "analyze" /\ pc \in {"g_sections", "g_highlights", "g_compare", "done"}

\* generate_summary has returned its summary.
Returned == scenario = "analyze" /\ pc = "done" /\ raised = "none"

\* The places of the lines of a kind in the summary.
LinesOf(kind) == {k \in 1..Len(summary) : summary[k].kind = kind}

\* C12: every entry of the results has mean_lower <= mean <= mean_upper
\* after the conversion to milliseconds, also for a file that lacks the
\* mean, the point estimate or the confidence interval.
C12_IntervalContainsMean ==
    scenario = "analyze" =>
        \A k \in 1..Len(results) :
            /\ Leq(results[k].data.mean_lower, results[k].data.mean)
            /\ Leq(results[k].data.mean, results[k].data.mean_upper)

\* C13: a benchmark directory has an entry in the results exactly when it
\* has an estimates file in "base" or "new"; the entry is that of "base" when
\* "base" exists and that of "new" otherwise; a benchmark without either is
\* in neither the results nor the report, and the others are all there.
C13_EntryIffSnapshot ==
    Parsed =>
        /\ \A e \in criterion_dir :
              (e.is_dir /\ e.name # Report) =>
                  /\ Has(results, e.name) <=> (DOMAIN e.files \cap {"base", "new"} # {})
                  /\ Has(results, e.name) =>
                        Item(results, e.name) =
                            Entry(IF "base" \in DOMAIN e.files THEN e.files.base ELSE e.files.new)
        /\ \A j, k \in 1..Len(results) : results[j].name = results[k].name => j = k
        /\ \A k \in 1..Len(results) :
              \E e \in criterion_dir : e.is_dir /\ e.name = results[k].name
        /\ Returned =>
              {summary[k].name : k \in LinesOf("bench")} = {results[k].name : k \in 1..Len(results)}

C13_Witness ==
    /\ Returned
    /\ \E e \in criterion_dir : e.is_dir /\ e.name = ReqMonocoque /\ DOMAIN e.files = {}
    /\ Len(results) = 1
    /\ results[1].name = PubZmqRs
    /\ Cardinality(LinesOf("bench")) = 1

\* C19: generate_summary raises no arithmetic error, whatever results
\* parse_criterion_results produced, an entry with a mean of 0 included.
C19_NoArithmeticError ==
    scenario = "analyze" => raised # "ZeroDivisionError"

\* The comparison lines of the summary.
ComparisonLinesAt == LinesOf("faster") \cup LinesOf("slower")

\* counterpart_mean / this_mean for a benchmark whose name has the tag.
SpeedupOf(name) ==
    LET this == Item(results, name).mean
        other == Item(results, Replace(name, Monocoque, ZmqRs)).mean
    IN  Ratio(other.num * this.den, other.den * this.num)

\* C14: once generate_summary has run, a benchmark whose name has the tag
\* "monocoque" has a comparison line exactly when the name with the tag
\* replaced by "zmq_rs" is in the results; with speedup =
\* counterpart_mean / this_mean the line says faster by speedup when
\* speedup > 1 and slower by 1/speedup when speedup <= 1; the lines are in
\* descending order of speedup.
C14_ComparisonsBySpeedup ==
    (scenario = "analyze" /\ pc = "done") =>
        /\ \A k \in 1..Len(results) :
              IsInfix(Monocoque, results[k].name) =>
                  LET name == results[k].name
                      at == {j \in ComparisonLinesAt : summary[j].name = name}
                  IN  IF Has(results, Replace(name, Monocoque, ZmqRs))
                      THEN /\ Cardinality(at) = 1
                           /\ \A j \in at :
                                 IF Less(Num(1), SpeedupOf(name))
                                 THEN /\ summary[j].kind = "faster"
                                      /\ summary[j].digits = <<Fixed2(SpeedupOf(name))>>
                                 ELSE /\ summary[j].kind = "slower"
                                      /\ summary[j].digits =
                                            <<Fixed2(Ratio(SpeedupOf(name).den, SpeedupOf(name).num))>>
                      ELSE at = {}
        /\ \A j \in ComparisonLinesAt :
              /\ Has(results, summary[j].name)
              /\ IsInfix(Monocoque, summary[j].name)
        /\ \A j, k \in ComparisonLinesAt :
              j < k => Leq(SpeedupOf(summary[k].name), SpeedupOf(summary[j].name))

PerSecond(data) ==
    Ratio(data.throughput.per_iteration * 1000 * data.mean.den, data.mean.num)

\* The digits and unit the thresholds give for a value per second.
Formatted(v, unit) ==
    IF unit = "bytes"
    THEN CASE v.num >= 1000000000 * v.den -> <<Fixed2(Ratio(v.num, v.den * 1000000000)), " GiB/s">>
           [] v.num < 1000000000 * v.den /\ v.num >= 1000000 * v.den ->
                <<Fixed2(Ratio(v.num, v.den * 1000000)), " MiB/s">>
           [] v.num < 1000000 * v.den -> <<Fixed2(Ratio(v.num, v.den * 1000)), " KiB/s">>
    ELSE CASE v.num >= 1000000 * v.den -> <<Fixed2(Ratio(v.num, v.den * 1000000)), "M msg/s">>
           [] v.num < 1000000 * v.den /\ v.num >= 1000 * v.den ->
                <<Fixed2(Ratio(v.num, v.den * 1000)), "K msg/s">>
           [] v.num < 1000 * v.den -> <<Fixed2(v), " msg/s">>

\* C16: in a summary that generate_summary returns, the throughput of a
\* benchmark is its per_iteration divided by its mean in seconds, shown in
\* the unit the thresholds give (bytes: >= 1e9 GiB/s, >= 1e6 MiB/s, else
\* KiB/s; elements: >= 1e6 M msg/s, >= 1e3 K msg/s, else msg/s); a mean of
\* 1,000,000 ns with 1024 bytes per iteration gives 1,024,000 bytes/s, shown
\* as "1.02 MiB/s".
C16_ThroughputUnits ==
    Returned =>
        \A k \in 1..Len(results) :
            LET data == results[k].data
                at == {j \in LinesOf("throughput") : summary[j].name = results[k].name}
            IN  IF HasThroughput(data)
                THEN /\ Cardinality(at) = 1
                     /\ \A j \in at :
                           /\ <<summary[j].digits[1], summary[j].suffix>> =
                                 Formatted(PerSecond(data), Get(data.throughput, "unit", "bytes"))
                           /\ (/\ data.mean = Ratio(1000000, NsPerMs)
                               /\ data.throughput.per_iteration = 1024
                               /\ Get(data.throughput, "unit", "bytes") = "bytes")
                                 => /\ PerSecond(data) = Num(1024000)
                                    /\ summary[j].digits = <<102>>
                                    /\ summary[j].suffix = " MiB/s"
                ELSE at = {}

C16_Witness ==
    /\ Returned
    /\ Len(results) = 1
    /\ results[1].data.mean = Num(1)
    /\ results[1].data.throughput = [per_iteration |-> 1024, unit |-> "bytes"]
    /\ \E j \in LinesOf("throughput") : summary[j].digits = <<102>> /\ summary[j].suffix = " MiB/s"

\* The heading of the section a benchmark line is in.
HeadingOf(j) == CHOOSE h \in LinesOf("category") :
                    h < j /\ \A g \in LinesOf("category") : g < j => g <= h

\* C17: in a summary that generate_summary returns, every benchmark of the
\* results has exactly one benchmark line, in the section of the token of
\* its name before the first "_"; the sections are in sorted order of their
\* category, one section per category, and the benchmarks of a section in
\* sorted order of their name, whatever the order of the results.
C17_SectionsSorted ==
    Returned =>
        /\ \A k \in 1..Len(results) :
              Cardinality({j \in LinesOf("bench") : summary[j].name = results[k].name}) = 1
        /\ \A j \in LinesOf("bench") :
              /\ Has(results, summary[j].name)
              /\ \E h \in LinesOf("category") : h < j
              /\ summary[HeadingOf(j)].name = ToUpper(Category(summary[j].name))
        /\ \A j, k \in LinesOf("bench") :
              j < k =>
                  IF Category(summary[j].name) = Category(summary[k].name)
                  THEN /\ StrLess(summary[j].name, summary[k].name)
                       /\ HeadingOf(j) = HeadingOf(k)
                  ELSE /\ StrLess(Category(summary[j].name), Category(summary[k].name))
                       /\ HeadingOf(j) < HeadingOf(k)
        /\ Cardinality(LinesOf("category")) =
              Cardinality({Category(results[k].name) : k \in 1..Len(results)})

C17_Witness ==
    /\ Returned
    /\ Len(results) = 4
    /\ results[1].name = ReqZmqRs
    /\ results[2].name = PubMonocoque
    /\ results[3].name = ReqMonocoque
    /\ Cardinality(LinesOf("category")) = 2
    /\ Cardinality(LinesOf("bench")) = 4

====
